---- MODULE Spec2Model ----
(***************************************************************************)
(* A model of scripts/format_log.py: the pagination loop (paginate_output  *)
(* and the helpers it calls) and the follow loop (tail_follow and file      *)
(* discovery), each as a state machine over the script's own variables.     *)
(*                                                                          *)
(* A log line is abstracted to what the code looks at:                      *)
(*   json : "raw"    json.loads raises JSONDecodeError                      *)
(*          "scalar" a JSON number, boolean or null                         *)
(*          "text"   a JSON string or array (no .get, but supports `in`)    *)
(*          "map"    a JSON object                                          *)
(*   ts   : the value found under timestamp/time: "absent", "aware" (ISO    *)
(*          string with offset or Z), "naive" (ISO string without offset),  *)
(*          "malformed" (a string fromisoformat rejects), "nonstr" (a       *)
(*          truthy value that is not a string, e.g. 123)                    *)
(*   typ  : the value under type: "absent", "str", "nonstr" (e.g. 5)        *)
(* Line indexes are 0-based as in the script; lines[i + 1] is line i.       *)
(***************************************************************************)
EXTENDS Integers, Sequences, FiniteSets, TLC

\* ---------------------------------------------------------------- bounds
MaxFill == 43
MaxTail == 2
MaxInodes == 3
MaxEnvOps == 3
MaxHist == 1

\* ------------------------------------------------------ program constants
lines_per_page == 20

\* ------------------------------------------------------------- log lines
Line(j, t, y) == [json |-> j, ts |-> t, typ |-> y]

RawLine    == Line("raw", "absent", "absent")
ScalarLine == Line("scalar", "absent", "absent")
TextLine   == Line("text", "absent", "absent")
FullLine   == Line("map", "aware", "str")

TsValues  == {"absent", "aware", "naive", "malformed", "nonstr"}
TypValues == {"absent", "str", "nonstr"}

MapLines  == {Line("map", t, y) : t \in TsValues, y \in TypValues}

\* the kinds of line the input files are built from
LineKinds ==
    {RawLine, ScalarLine, TextLine, FullLine,
     Line("map", "absent", "absent"), Line("map", "malformed", "absent"),
     Line("map", "nonstr", "absent"), Line("map", "absent", "nonstr"),
     Line("map", "naive", "str")}

TtyModes == {"cooked", "cbreak"}

FillKinds == {FullLine, RawLine}

Keys == {"q", "Q", "c", "C", " ", "\n", "\r", "x"}

VARIABLES
    lines,            \* paginate_output: the list of raw lines
    pgPc,             \* position in main / paginate_output
    current_line,     \* paginate_output: cursor
    lines_displayed,  \* paginate_output: lines shown in the current batch
    summary,          \* paginate_output: result of get_log_summary
    out,              \* what has been printed, in order
    tty,              \* mode of the controlling terminal
    old_settings,     \* paginate_output: saved termios attributes
    rd,               \* "reading" inside the try of a keypress read
    err,              \* the exception that ended the run, or "none"
    keylog,           \* history: the keys read so far, by class
    skipped,          \* history: line indexes an Enter jump passed over
    dir,              \* file system: path -> inode at that path, 0 when none
    content,          \* file system: inode -> the lines of that file
    recent,           \* file system: the inodes, least recently modified first
    envOps,           \* file system: operations other processes have done
    mode,             \* follow: "file" (a log file was named) or "dir"
    flPc,             \* position in main / tail_follow
    phase,            \* tail_follow: "startup" before the loop, then "loop"
    file_path,        \* tail_follow: the tracked path
    f,                \* tail_follow: the file handle
    current_inode,    \* tail_follow: the stored identity token
    new_inode,        \* tail_follow: the identity token just looked up
    files,            \* get_currently_tracking_file: the rglob listing
    latest_file,      \* get_currently_tracking_file: the newest listed path
    emitted,          \* the <<inode, line number>> pairs rendered, in order
    opened,           \* history: handles opened and not yet closed
    attached,         \* history: the inodes the tracker has opened
    histLen,          \* history: length of each file when following started
    watched,          \* history: lines appended at the tracked path in the loop
    json_obj,         \* format_log_entry: the parsed record, key -> value
    printed,          \* format_log_entry: the lines printed, in order
    fmtPc,            \* position in format_log_entry
    start_str,        \* get_log_summary: start_time of the one-record file
    field_name,       \* get_color_code: the name, as character codes
    hash_val,         \* get_color_code: the rolling hash
    char_idx,         \* get_color_code: characters consumed so far
    color             \* get_color_code: the palette index returned, -1 for ''

pageVars == <<lines, pgPc, current_line, lines_displayed, summary, out, tty,
              old_settings, rd, keylog, skipped>>
fsVars == <<dir, content, recent, envOps>>
trackVars == <<mode, flPc, phase, file_path, f, current_inode, new_inode, files,
               latest_file, emitted, opened, attached, histLen>>
followVars == <<fsVars, trackVars, watched>>
fmtVars == <<json_obj, printed, fmtPc, start_str>>
colorVars == <<field_name, hash_val, char_idx, color>>
pureVars == <<fmtVars, colorVars>>
vars == <<pageVars, err, followVars, pureVars>>

Ev(t, i) == [t |-> t, i |-> i]

\* ------------------------------------------------------------ pure helpers
\* json.loads(line.strip()) succeeds
ParsesAsJson(l) == l.json # "raw"

\* json_obj.get(...) exists only on a mapping
HasGet(l) == l.json = "map"

\* get_color_code(field_name): iterating a non-string raises TypeError
get_color_code_raises(v) == v = "nonstr"

\* convert_timestamp: every exception is caught, the input is returned
convert_timestamp_raises(v) == FALSE

\* format_log_entry(json_obj): the exception it raises, or "none"
format_log_entry_err(l) ==
    IF ~HasGet(l) THEN "AttributeError"
    ELSE IF l.ts # "absent" /\ convert_timestamp_raises(l.ts) THEN "ValueError"
    ELSE IF l.typ # "absent" /\ get_color_code_raises(l.typ) THEN "TypeError"
    ELSE "none"

\* the predicate of find_next_timestamp_index on a parsed line:
\* 'timestamp' in json_obj or 'time' in json_obj or 'type' in json_obj
HasKey(l) == l.json = "map" /\ (l.ts # "absent" \/ l.typ # "absent")

\* find_next_timestamp_index with the scan started one line too late
find_next_timestamp_index_late(ls, start) ==
    LET T == {i \in (start + 1)..(Len(ls) - 1) : HasKey(ls[i + 1])} IN
    IF T = {} THEN Len(ls) ELSE CHOOSE i \in T : \A j \in T : i <= j

RECURSIVE find_next_timestamp_index(_, _)
\* the index found, Len(ls) when none, or -1 when `in` raises TypeError
find_next_timestamp_index(ls, start) ==
    IF start >= Len(ls) THEN Len(ls)
    ELSE LET l == ls[start + 1] IN
         IF ~ParsesAsJson(l) THEN find_next_timestamp_index(ls, start + 1)
         ELSE IF l.json = "scalar" THEN -1
         ELSE IF HasKey(l) THEN start
         ELSE find_next_timestamp_index(ls, start + 1)

RECURSIVE summary_scan(_, _, _, _)
\* the loop of get_log_summary over lines i.., carrying total_events and the
\* kinds of the datetimes collected so far
summary_scan(ls, i, total, tz) ==
    IF i > Len(ls) THEN [err |-> "none", total_events |-> total, tz |-> tz]
    ELSE LET l == ls[i] IN
         IF ~ParsesAsJson(l) THEN summary_scan(ls, i + 1, total + 1, tz)
         ELSE IF ~HasGet(l) THEN [err |-> "AttributeError", total_events |-> total, tz |-> tz]
         ELSE IF l.ts = "nonstr" THEN [err |-> "AttributeError", total_events |-> total, tz |-> tz]
         ELSE IF l.ts \in {"aware", "naive"}
              THEN summary_scan(ls, i + 1, total + 1, tz \cup {l.ts})
         ELSE summary_scan(ls, i + 1, total + 1, tz)

total_pages_of(n) == (n + lines_per_page - 1) \div lines_per_page

get_log_summary(ls) ==
    LET s == summary_scan(ls, 1, 0, {}) IN
    IF s.err # "none"
    THEN [err |-> s.err, total_events |-> 0, total_pages |-> 0, has_times |-> FALSE]
    ELSE IF Cardinality(s.tz) > 1
    THEN [err |-> "TypeError", total_events |-> 0, total_pages |-> 0, has_times |-> FALSE]
    ELSE [err |-> "none", total_events |-> s.total_events,
          total_pages |-> total_pages_of(Len(ls)), has_times |-> s.tz # {}]

NoSummary == [err |-> "unset", total_events |-> 0, total_pages |-> 0, has_times |-> FALSE]

\* ------------------------------------------------------------ input files
RECURSIVE SeqsUpTo(_, _)
SeqsUpTo(S, n) ==
    IF n = 0 THEN {<< >>}
    ELSE LET shorter == SeqsUpTo(S, n - 1) IN
         shorter \cup {Append(s, x) : s \in {t \in shorter : Len(t) = n - 1}, x \in S}

Fill(n, k) == [i \in 1..n |-> k]

InputFiles ==
    {Fill(n, k) \o t : n \in 0..MaxFill, k \in FillKinds, t \in SeqsUpTo(LineKinds, MaxTail)}

\* ------------------------------------------------------------ JSON values
\* A value of a parsed record, as far as format_log_entry, convert_timestamp
\* and get_log_summary tell values apart:
\*   kind "str"  a string that is not an ISO-8601 time; text is its content
\*        "iso"  a string "YYYY-MM-DDThh:mm:ssZ"; at holds its fields
\*        "num", "bool", "null", "map", "list"; text is what print shows
\*        "absent" the key is not in the record
\*        "hms"  the text strftime('%H:%M:%S') returns, fields in at
\*        "ymdhms" the text strftime('%Y-%m-%d %H:%M:%S') returns
NoTime == [y |-> 0, mo |-> 0, d |-> 0, h |-> 0, mi |-> 0, s |-> 0]
Val(k, x, t) == [kind |-> k, text |-> x, at |-> t]
Absent == Val("absent", "", NoTime)
None == Val("null", "None", NoTime)
Str(x) == Val("str", x, NoTime)
Num(x) == Val("num", x, NoTime)
Bool(x) == Val("bool", x, NoTime)
Map(x) == Val("map", x, NoTime)
List(x) == Val("list", x, NoTime)
Iso(t) == Val("iso", "", t)
Raised(e) == Val("raised", e, NoTime)
Unset == Val("unset", "", NoTime)

\* Python truthiness, as tested by `if timestamp:` and `if ... and entry_type`
Truthy(v) ==
    CASE v.kind \in {"iso", "hms", "ymdhms"} -> TRUE
      [] v.kind = "str" -> v.text # ""
      [] v.kind = "num" -> v.text # "0"
      [] v.kind = "bool" -> v.text = "True"
      [] v.kind = "map" -> v.text # "{}"
      [] v.kind = "list" -> v.text # "[]"
      [] OTHER -> FALSE

\* datetime: the Gregorian calendar, years 1..9999 (datetime.MAXYEAR)
MAXYEAR == 9999
IsLeap(y) == (y % 4 = 0 /\ y % 100 # 0) \/ y % 400 = 0
DaysIn(y, mo) ==
    IF mo = 2 THEN (IF IsLeap(y) THEN 29 ELSE 28)
    ELSE IF mo \in {4, 6, 9, 11} THEN 30 ELSE 31

\* the day after the date of t
NextDay(t) ==
    IF t.d < DaysIn(t.y, t.mo) THEN [t EXCEPT !.d = t.d + 1]
    ELSE IF t.mo < 12 THEN [t EXCEPT !.mo = t.mo + 1, !.d = 1]
    ELSE [t EXCEPT !.y = t.y + 1, !.mo = 1, !.d = 1]

\* dt + timedelta(hours=8), lines 21 and 261-262; OverflowError past MAXYEAR
plus_hours(t) ==
    LET hh == t.h + 8
        r  == IF hh < 24 THEN [t EXCEPT !.h = hh] ELSE [NextDay(t) EXCEPT !.h = hh - 24]
    IN [overflow |-> r.y > MAXYEAR, at |-> r]

\* strftime('%H:%M:%S') and strftime('%Y-%m-%d %H:%M:%S')
Hms(t) == Val("hms", "", [NoTime EXCEPT !.h = t.h, !.mi = t.mi, !.s = t.s])
Ymdhms(t) == Val("ymdhms", "", t)

\* convert_timestamp(timestamp_str): every exception is caught (a value with
\* no .replace, a string fromisoformat rejects, a sum past MAXYEAR) and the
\* argument is returned as it came
convert_timestamp(v) ==
    IF v.kind = "iso" /\ ~plus_hours(v.at).overflow
    THEN Hms(plus_hours(v.at).at)
    ELSE v

\* ------------------------------------------------------------- pagination
Paths == {"a", "b"}
NoPath == "none"
NoHandle == [ino |-> 0, pos |-> 0, closed |-> TRUE]

\* the follow-mode variables when the script runs without -f
FollowIdle ==
    /\ dir = [p \in Paths |-> 0]
    /\ content = << >>
    /\ recent = << >>
    /\ envOps = 0
    /\ mode = "none"
    /\ flPc = "unused"
    /\ phase = "startup"
    /\ file_path = NoPath
    /\ f = NoHandle
    /\ current_inode = 0
    /\ new_inode = 0
    /\ files = {}
    /\ latest_file = NoPath
    /\ emitted = << >>
    /\ opened = 0
    /\ attached = {}
    /\ histLen = << >>
    /\ watched = {}

\* the variables of the formatting helpers when they are not under study
PureIdle ==
    /\ json_obj = << >>
    /\ printed = << >>
    /\ fmtPc = "unused"
    /\ start_str = Unset
    /\ field_name = << >>
    /\ hash_val = 0
    /\ char_idx = 0
    /\ color = -1

InitPage ==
    /\ FollowIdle
    /\ PureIdle
    /\ lines \in InputFiles
    /\ pgPc = "get_log_summary"
    /\ current_line = 0
    /\ lines_displayed = 0
    /\ summary = NoSummary
    /\ out = << >>
    /\ tty \in TtyModes
    /\ old_settings = "unset"
    /\ rd = "idle"
    /\ err = "none"
    /\ keylog = << >>
    /\ skipped = {}

\* paginate_output, lines 284-295: compute and print the summary, prompt
Summarize ==
    /\ pgPc = "get_log_summary"
    /\ LET s == get_log_summary(lines) IN
       IF s.err # "none"
       THEN /\ pgPc' = "Error"
            /\ err' = s.err
            /\ UNCHANGED <<summary, out>>
       ELSE /\ pgPc' = "AwaitingStart"
            /\ summary' = s
            /\ out' = Append(out, Ev("summary", s.total_pages))
            /\ err' = err
    /\ UNCHANGED <<lines, current_line, lines_displayed, tty, old_settings, rd,
                   keylog, skipped>>
    /\ UNCHANGED <<followVars, pureVars>>

\* lines 298-301 and 345-348: tcgetattr, then tty.setraw inside the try
ReadBegin ==
    /\ pgPc \in {"AwaitingStart", "AwaitingPageInput"}
    /\ rd = "idle"
    /\ old_settings' = tty
    /\ tty' = "raw"
    /\ rd' = "reading"
    /\ UNCHANGED <<lines, pgPc, current_line, lines_displayed, summary, out, err,
                   keylog, skipped>>
    /\ UNCHANGED <<followVars, pureVars>>

\* a keypress read that leaves the terminal as tty.setraw set it
restore_terminal_skipped(saved) == "raw"

\* the finally clause of a keypress read, lines 303-304 and 350-351
restore_terminal(saved) == saved

\* the check `while current_line < total_lines` at line 322 with cursor cur
\* and output o; when it fails paginate_output returns and main prints its
\* closing line (line 563)
LoopTopPc(cur) == IF cur < Len(lines) THEN "ShowingPage" ELSE "Done"
LoopTopOut(cur, o) == IF cur < Len(lines) THEN o ELSE Append(o, Ev("main_end", 0))

\* lines 302-320: the first keypress arrives
StartKey(ch) ==
    /\ pgPc = "AwaitingStart"
    /\ rd = "reading"
    /\ tty' = restore_terminal(old_settings)
    /\ rd' = "idle"
    /\ IF ch \in {"q", "Q"}
       THEN /\ pgPc' = "Done"
            /\ out' = out \o <<Ev("quit", 0), Ev("main_end", 0)>>
            /\ keylog' = Append(keylog, "q")
       ELSE /\ pgPc' = LoopTopPc(0)
            /\ out' = LoopTopOut(0, IF ch \in {"c", "C"} THEN out
                                    ELSE Append(out, Ev("ack", 0)))
            /\ keylog' = Append(keylog, IF ch \in {"c", "C"} THEN "c" ELSE "other")
    /\ current_line' = 0
    /\ lines_displayed' = 0
    /\ UNCHANGED <<lines, summary, old_settings, err, skipped>>
    /\ UNCHANGED <<followVars, pureVars>>

\* lines 326-342: one pass of the inner loop, and what follows the loop when
\* this pass was its last
RenderLine ==
    /\ pgPc = "ShowingPage"
    /\ current_line < Len(lines)
    /\ lines_displayed < lines_per_page
    /\ LET l == lines[current_line + 1]
           e == IF ParsesAsJson(l) THEN format_log_entry_err(l) ELSE "none"
           shown == Append(out, Ev(IF ParsesAsJson(l) THEN "entry" ELSE "raw",
                                   current_line))
       IN
       IF e # "none"
       THEN /\ pgPc' = "Error"
            /\ err' = e
            /\ out' = Append(out, Ev("partial", current_line))
            /\ UNCHANGED <<current_line, lines_displayed>>
       ELSE /\ current_line' = current_line + 1
            /\ lines_displayed' = lines_displayed + 1
            /\ err' = err
            /\ IF current_line' < Len(lines) /\ lines_displayed' < lines_per_page
               THEN /\ pgPc' = "ShowingPage"
                    /\ out' = shown
               ELSE IF current_line' >= Len(lines)
               THEN /\ pgPc' = "Done"
                    /\ out' = shown \o <<Ev("eof", 0), Ev("main_end", 0)>>
               ELSE /\ pgPc' = "AwaitingPageInput"
                    /\ out' = shown
    /\ UNCHANGED <<lines, summary, tty, old_settings, rd, keylog, skipped>>
    /\ UNCHANGED <<followVars, pureVars>>

\* lines 349-378: a keypress arrives at the --More-- prompt
PageKey(ch) ==
    /\ pgPc = "AwaitingPageInput"
    /\ rd = "reading"
    /\ tty' = restore_terminal(old_settings)
    /\ rd' = "idle"
    /\ IF ch \in {"q", "Q"}
       THEN /\ pgPc' = "Done"
            /\ out' = out \o <<Ev("quit", 0), Ev("main_end", 0)>>
            /\ keylog' = Append(keylog, "q")
            /\ UNCHANGED <<current_line, lines_displayed, err, skipped>>
       ELSE IF ch \in {"\n", "\r"}
       THEN LET idx == find_next_timestamp_index(lines, current_line) IN
            /\ keylog' = Append(keylog, "enter")
            /\ IF idx < 0
               THEN /\ pgPc' = "Error"
                    /\ err' = "TypeError"
                    /\ UNCHANGED <<current_line, lines_displayed, out, skipped>>
               ELSE IF idx < Len(lines)
               THEN LET e == format_log_entry_err(lines[idx + 1]) IN
                    IF e # "none"
                    THEN /\ pgPc' = "Error"
                         /\ err' = e
                         /\ out' = Append(out, Ev("partial", idx))
                         /\ UNCHANGED <<current_line, lines_displayed, skipped>>
                    ELSE /\ current_line' = idx + 1
                         /\ lines_displayed' = 0
                         /\ skipped' = skipped \cup (current_line..(idx - 1))
                         /\ pgPc' = LoopTopPc(idx + 1)
                         /\ out' = LoopTopOut(idx + 1, Append(out, Ev("entry", idx)))
                         /\ err' = err
               ELSE /\ pgPc' = "Done"
                    /\ out' = out \o <<Ev("eof", 0), Ev("main_end", 0)>>
                    /\ UNCHANGED <<current_line, lines_displayed, err, skipped>>
       ELSE /\ keylog' = Append(keylog, IF ch = " " THEN "space" ELSE "other")
            /\ pgPc' = LoopTopPc(current_line)
            /\ out' = LoopTopOut(current_line, out)
            /\ lines_displayed' = 0
            /\ UNCHANGED <<current_line, err, skipped>>
    /\ UNCHANGED <<lines, summary, old_settings>>
    /\ UNCHANGED <<followVars, pureVars>>

\* sys.stdin.read(1) or tty.setraw raises: the finally clause runs and the
\* exception leaves main uncaught
ReadError ==
    /\ pgPc \in {"AwaitingStart", "AwaitingPageInput"}
    /\ rd = "reading"
    /\ tty' = restore_terminal(old_settings)
    /\ rd' = "idle"
    /\ pgPc' = "Error"
    /\ err' = "OSError"
    /\ UNCHANGED <<lines, current_line, lines_displayed, summary, out,
                   old_settings, keylog, skipped>>
    /\ UNCHANGED <<followVars, pureVars>>

\* SIGINT: KeyboardInterrupt unwinds through the finally clause of a pending
\* read and is caught in main (lines 564-565)
InterruptPage ==
    /\ pgPc \in {"get_log_summary", "AwaitingStart", "ShowingPage", "AwaitingPageInput"}
    /\ tty' = IF rd = "reading" THEN restore_terminal(old_settings) ELSE tty
    /\ rd' = "idle"
    /\ pgPc' = "Interrupted"
    /\ err' = "KeyboardInterrupt"
    /\ out' = Append(out, Ev("exiting", 0))
    /\ UNCHANGED <<lines, current_line, lines_displayed, summary, old_settings,
                   keylog, skipped>>
    /\ UNCHANGED <<followVars, pureVars>>

NextPage ==
    \/ Summarize
    \/ ReadBegin
    \/ \E ch \in Keys : StartKey(ch)
    \/ RenderLine
    \/ \E ch \in Keys : PageKey(ch)
    \/ ReadError
    \/ InterruptPage

SpecPage == InitPage /\ [][NextPage]_vars

TypeOKPage ==
    /\ pgPc \in {"get_log_summary", "AwaitingStart", "ShowingPage",
                 "AwaitingPageInput", "Done", "Error", "Interrupted"}
    /\ current_line \in 0..Len(lines)
    /\ lines_displayed \in 0..lines_per_page
    /\ tty \in TtyModes \cup {"raw"}
    /\ rd \in {"idle", "reading"}

\* ------------------------------------------------------------ follow mode
\* the kinds of line a writer appends while the file is followed
FollowKinds == {FullLine, RawLine, ScalarLine}

Inodes == 1..Len(content)
Exists(p) == dir[p] # 0

\* a write or a creation makes the inode the most recently modified
Touch(ino) == Append(SelectSeq(recent, LAMBDA x : x # ino), ino)
Age(ino) == CHOOSE k \in 1..Len(recent) : recent[k] = ino

\* max(files, key=lambda f: f.stat().st_mtime) at line 395
NewestOf(P) == CHOOSE p \in P : \A q \in P : Age(dir[q]) <= Age(dir[p])

\* open(file_path, 'r') without the seek to the end
OpenAtStart(ino) == [ino |-> ino, pos |-> 0, closed |-> FALSE]

\* open(file_path, 'r'); f.seek(0, os.SEEK_END)
OpenAtEnd(ino) == [ino |-> ino, pos |-> Len(content[ino]), closed |-> FALSE]

\* a close that leaves the handle open
CloseSkipped(h) == h

\* f.close()
Close(h) == [h EXCEPT !.closed = TRUE]
OpenCount(h) == IF h.closed THEN 0 ELSE 1

InitialDirs ==
    {[p \in Paths |-> IF p = "a" THEN (IF ea THEN 1 ELSE 0)
                      ELSE (IF eb THEN (IF ea THEN 2 ELSE 1) ELSE 0)] :
        ea \in BOOLEAN, eb \in BOOLEAN}

InitFollow ==
    /\ PureIdle
    /\ lines = << >>
    /\ pgPc = "unused"
    /\ current_line = 0
    /\ lines_displayed = 0
    /\ summary = NoSummary
    /\ out = << >>
    /\ tty = "cooked"
    /\ old_settings = "unset"
    /\ rd = "idle"
    /\ keylog = << >>
    /\ skipped = {}
    /\ err = "none"
    /\ dir \in InitialDirs
    /\ \E h \in 0..MaxHist :
          content = [i \in 1..Cardinality({p \in Paths : dir[p] # 0}) |-> Fill(h, FullLine)]
    /\ recent = [i \in 1..Len(content) |-> i]
    /\ envOps = 0
    /\ mode \in {"file", "dir"}
    /\ flPc = "main"
    /\ phase = "startup"
    /\ file_path = IF mode = "file" THEN "a" ELSE NoPath
    /\ f = NoHandle
    /\ current_inode = 0
    /\ new_inode = 0
    /\ files = {}
    /\ latest_file = NoPath
    /\ emitted = << >>
    /\ opened = 0
    /\ attached = {}
    /\ histLen = << >>
    /\ watched = {}

Running == flPc \notin {"unused", "Exit1", "Crashed", "Stopped"}


\* --- the environment: other processes acting on the monitored directory
\* a writer appends one line to the file at path p
AppendLine(p, k) ==
    /\ Running
    /\ Exists(p)
    /\ envOps < MaxEnvOps
    /\ envOps' = envOps + 1
    /\ content' = [content EXCEPT ![dir[p]] = Append(@, k)]
    /\ recent' = Touch(dir[p])
    /\ watched' = IF phase = "loop" /\ p = file_path
                  THEN watched \cup {<<dir[p], Len(content[dir[p]]) + 1>>}
                  ELSE watched
    /\ UNCHANGED <<dir, trackVars, pageVars, pureVars, err>>

\* a new empty file appears at a path that had none
CreateFile(p) ==
    /\ Running
    /\ ~Exists(p)
    /\ Len(content) < MaxInodes
    /\ envOps < MaxEnvOps
    /\ envOps' = envOps + 1
    /\ dir' = [dir EXCEPT ![p] = Len(content) + 1]
    /\ content' = Append(content, << >>)
    /\ recent' = Append(recent, Len(content) + 1)
    /\ UNCHANGED <<trackVars, watched, pageVars, pureVars, err>>

\* the file at path p is unlinked or moved out of the directory
DeleteFile(p) ==
    /\ Running
    /\ Exists(p)
    /\ envOps < MaxEnvOps
    /\ envOps' = envOps + 1
    /\ dir' = [dir EXCEPT ![p] = 0]
    /\ UNCHANGED <<content, recent, trackVars, watched, pageVars, pureVars, err>>

\* rotation in place: a new empty file is renamed over path p
ReplaceFile(p) ==
    /\ Running
    /\ Exists(p)
    /\ Len(content) < MaxInodes
    /\ envOps < MaxEnvOps
    /\ envOps' = envOps + 1
    /\ dir' = [dir EXCEPT ![p] = Len(content) + 1]
    /\ content' = Append(content, << >>)
    /\ recent' = Append(recent, Len(content) + 1)
    /\ UNCHANGED <<trackVars, watched, pageVars, pureVars, err>>

\* --- the tracker
\* an error branch that prints its message and carries on to the open
Exit1Forgotten ==
    /\ flPc' = "init_open"
    /\ err' = err

\* sys.exit(1) during startup
Exit1 ==
    /\ flPc' = "Exit1"
    /\ err' = "SystemExit"

\* an exception leaves the loop through the finally clause (lines 499-500)
\* and ends the process with a traceback
Crash(e) ==
    /\ flPc' = "Crashed"
    /\ err' = e
    /\ f' = Close(f)
    /\ opened' = opened - OpenCount(f)

\* main, lines 512-536: with a directory argument the run ends at once when
\* the directory holds no .jsonl file
MainFollow ==
    /\ flPc = "main"
    /\ IF mode = "dir" /\ \A p \in Paths : ~Exists(p)
       THEN Exit1
       ELSE flPc' = "tail_follow" /\ err' = err
    /\ UNCHANGED <<fsVars, mode, phase, file_path, f, current_inode, new_inode,
                   files, latest_file, emitted, opened, histLen, pageVars, pureVars, watched, attached>>

\* tail_follow, lines 411-430: resolve the file to follow
TailFollowStart ==
    /\ flPc = "tail_follow"
    /\ IF mode = "dir"
       THEN flPc' = "rglob" /\ err' = err
       ELSE IF Exists(file_path)
       THEN flPc' = "init_stat" /\ err' = err
       ELSE Exit1
    /\ UNCHANGED <<fsVars, mode, phase, file_path, f, current_inode, new_inode,
                   files, latest_file, emitted, opened, histLen, pageVars, pureVars, watched, attached>>

\* what tail_follow does with the result of get_currently_tracking_file:
\* lines 418-421 at startup, lines 482-494 in the loop
AfterDiscovery(path, ino) ==
    IF phase = "startup"
    THEN /\ file_path' = path
         /\ new_inode' = new_inode
         /\ IF path = NoPath THEN Exit1 ELSE flPc' = "init_stat" /\ err' = err
    ELSE /\ new_inode' = ino
         /\ err' = err
         /\ IF path # NoPath /\ path # file_path
            THEN file_path' = path /\ flPc' = "sw_open"
            ELSE file_path' = file_path /\ flPc' = "readline"

\* get_currently_tracking_file, lines 389-392: list the .jsonl files
DiscList ==
    /\ flPc = "rglob"
    /\ files' = {p \in Paths : Exists(p)}
    /\ IF files' = {}
       THEN AfterDiscovery(NoPath, 0)
       ELSE /\ flPc' = "max_mtime"
            /\ UNCHANGED <<file_path, new_inode, err>>
    /\ UNCHANGED <<fsVars, mode, phase, f, current_inode, latest_file, emitted,
                   opened, histLen, pageVars, pureVars, watched, attached>>

\* line 395: stat every listed file and keep the newest; a listed file that
\* is gone raises FileNotFoundError, which nothing catches
DiscMax ==
    /\ flPc = "max_mtime"
    /\ IF \E p \in files : ~Exists(p)
       THEN /\ Crash("FileNotFoundError")
            /\ UNCHANGED latest_file
       ELSE /\ latest_file' = NewestOf(files)
            /\ flPc' = "stat_ino"
            /\ UNCHANGED <<f, opened, err>>
    /\ UNCHANGED <<fsVars, mode, phase, file_path, current_inode, new_inode, files,
                   emitted, histLen, pageVars, pureVars, watched, attached>>

\* lines 396-399: the inode of the newest file, or (None, None) when it is gone
DiscIno ==
    /\ flPc = "stat_ino"
    /\ IF Exists(latest_file)
       THEN AfterDiscovery(latest_file, dir[latest_file])
       ELSE AfterDiscovery(NoPath, 0)
    /\ UNCHANGED <<fsVars, mode, phase, f, current_inode, files, latest_file,
                   emitted, opened, histLen, pageVars, pureVars, watched, attached>>

\* lines 432-437: the identity token of the file to follow
InitStat ==
    /\ flPc = "init_stat"
    /\ IF Exists(file_path)
       THEN /\ current_inode' = dir[file_path]
            /\ flPc' = "init_open"
            /\ err' = err
       ELSE /\ Exit1
            /\ UNCHANGED current_inode
    /\ UNCHANGED <<fsVars, mode, phase, file_path, f, new_inode, files,
                   latest_file, emitted, opened, histLen, pageVars, pureVars, watched, attached>>

\* lines 442-450: open the file, seek to its end, enter the loop
InitOpen ==
    /\ flPc = "init_open"
    /\ IF Exists(file_path)
       THEN /\ f' = OpenAtEnd(dir[file_path])
            /\ opened' = opened + 1
            /\ attached' = attached \cup {dir[file_path]}
            /\ histLen' = [i \in Inodes |-> Len(content[i])]
            /\ phase' = "loop"
            /\ flPc' = "readline"
            /\ err' = err
       ELSE /\ Exit1
            /\ UNCHANGED <<f, opened, attached, histLen, phase>>
    /\ UNCHANGED <<fsVars, mode, file_path, current_inode, new_inode, files,
                   latest_file, emitted, pageVars, pureVars, watched>>

\* lines 452-459: f.readline() and the rendering of the line it returns
ReadLine ==
    /\ flPc = "readline"
    /\ IF f.closed
       THEN /\ Crash("ValueError")
            /\ UNCHANGED emitted
       ELSE IF f.pos < Len(content[f.ino])
       THEN LET l == content[f.ino][f.pos + 1]
                e == IF ParsesAsJson(l) THEN format_log_entry_err(l) ELSE "none"
            IN
            IF e = "none"
            THEN /\ f' = [f EXCEPT !.pos = f.pos + 1]
                 /\ emitted' = Append(emitted, <<f.ino, f.pos + 1>>)
                 /\ UNCHANGED <<flPc, opened, err>>
            ELSE /\ flPc' = "Crashed"
                 /\ err' = e
                 /\ f' = Close([f EXCEPT !.pos = f.pos + 1])
                 /\ opened' = opened - 1
                 /\ UNCHANGED emitted
       ELSE /\ flPc' = "stat"
            /\ UNCHANGED <<f, opened, err, emitted>>
    /\ UNCHANGED <<fsVars, mode, phase, file_path, current_inode, new_inode, files,
                   latest_file, histLen, pageVars, pureVars, watched, attached>>

\* lines 462-472 and 476-479: after the pause, stat the tracked path; close
\* the handle when the identity token differs or the path is gone
Stat ==
    /\ flPc = "stat"
    /\ IF ~Exists(file_path)
       THEN /\ f' = Close(f)
            /\ opened' = opened - OpenCount(f)
            /\ flPc' = "rglob"
            /\ UNCHANGED new_inode
       ELSE /\ new_inode' = dir[file_path]
            /\ IF new_inode' # current_inode
               THEN /\ f' = Close(f)
                    /\ opened' = opened - OpenCount(f)
                    /\ flPc' = "reopen"
               ELSE /\ flPc' = "readline"
                    /\ UNCHANGED <<f, opened>>
    /\ UNCHANGED <<fsVars, mode, phase, file_path, current_inode, files,
                   latest_file, emitted, histLen, err, pageVars, pureVars, watched, attached>>

\* lines 473-479: re-open the same path at its end; when the path is gone the
\* except clause of line 476 takes over
RotOpen ==
    /\ flPc = "reopen"
    /\ IF Exists(file_path)
       THEN /\ f' = OpenAtEnd(dir[file_path])
            /\ opened' = opened + 1
            /\ attached' = attached \cup {dir[file_path]}
            /\ current_inode' = new_inode
            /\ flPc' = "readline"
       ELSE /\ flPc' = "rglob"
            /\ UNCHANGED <<f, opened, attached, current_inode>>
    /\ UNCHANGED <<fsVars, mode, phase, file_path, new_inode, files, latest_file,
                   emitted, histLen, err, pageVars, pureVars, watched>>

\* lines 486-488: open the file discovery found; FileNotFoundError raised here
\* is inside the except clause and is not caught
SwOpen ==
    /\ flPc = "sw_open"
    /\ IF Exists(file_path)
       THEN /\ f' = OpenAtEnd(dir[file_path])
            /\ opened' = opened + 1
            /\ attached' = attached \cup {dir[file_path]}
            /\ current_inode' = new_inode
            /\ flPc' = "readline"
            /\ err' = err
       ELSE /\ Crash("FileNotFoundError")
            /\ UNCHANGED <<current_inode, attached>>
    /\ UNCHANGED <<fsVars, mode, phase, file_path, new_inode, files, latest_file,
                   emitted, histLen, pageVars, pureVars, watched>>

\* Ctrl-C: lines 496-500 inside the loop, lines 540-541 in main
InterruptFollow ==
    /\ Running
    /\ flPc' = "Stopped"
    /\ err' = "KeyboardInterrupt"
    /\ f' = Close(f)
    /\ opened' = opened - OpenCount(f)
    /\ UNCHANGED <<fsVars, mode, phase, file_path, current_inode, new_inode, files,
                   latest_file, emitted, histLen, pageVars, pureVars, watched, attached>>

NextFollow ==
    \/ \E p \in Paths, k \in FollowKinds : AppendLine(p, k)
    \/ \E p \in Paths : CreateFile(p)
    \/ \E p \in Paths : DeleteFile(p)
    \/ \E p \in Paths : ReplaceFile(p)
    \/ MainFollow
    \/ TailFollowStart
    \/ DiscList
    \/ DiscMax
    \/ DiscIno
    \/ InitStat
    \/ InitOpen
    \/ ReadLine
    \/ Stat
    \/ RotOpen
    \/ SwOpen
    \/ InterruptFollow

SpecFollow == InitFollow /\ [][NextFollow]_vars

\* the steps of the tracker itself: the process is running, so whichever of
\* them is enabled is eventually taken (the pauses of lines 462, 491 and 494
\* are finite)
TrackerStep ==
    \/ MainFollow
    \/ TailFollowStart
    \/ DiscList
    \/ DiscMax
    \/ DiscIno
    \/ InitStat
    \/ InitOpen
    \/ ReadLine
    \/ Stat
    \/ RotOpen
    \/ SwOpen

SpecFollowFair == SpecFollow /\ WF_vars(TrackerStep)

TypeOKFollow ==
    /\ flPc \in {"main", "tail_follow", "rglob", "max_mtime", "stat_ino", "init_stat",
                 "init_open", "readline", "stat", "reopen", "sw_open",
                 "Exit1", "Crashed", "Stopped"}
    /\ \A p \in Paths : dir[p] \in 0..Len(content)
    /\ Len(content) <= MaxInodes
    /\ opened \in 0..1
    /\ ~f.closed => f.ino \in Inodes /\ f.pos <= Len(content[f.ino])

\* --------------------------------------------------------- field colouring
\* the mask 0x7FFFFFFF of line 35
MaxInt31 == 2147483647

\* the palette of lines 38-52, by the number in each escape sequence
colors == <<31, 32, 33, 34, 35, 36, 91, 92, 93, 94, 95, 96, 97>>

\* (hash_val * 31 + ord(char)) & 0x7FFFFFFF, line 35. The product is formed
\* modulo 2^31 as 32 * (hash_val mod 2^26) - hash_val, so that no intermediate
\* value leaves the 32-bit range; the result is the same number.
hash_step(h, c) ==
    LET t   == (h % 67108864) * 32 - h
        t31 == IF t < 0 THEN (t + MaxInt31) + 1 ELSE t
    IN IF t31 > MaxInt31 - c THEN (t31 - (MaxInt31 - c)) - 1 ELSE t31 + c

\* a palette lookup that can run one past the end of the palette
color_index_past_end(h) == h % (Len(colors) + 1)

\* hash_val % len(colors), line 53
color_index(h) == h % Len(colors)

RECURSIVE hash_of(_, _, _)
\* the loop of lines 33-35 from character i on
hash_of(name, i, h) ==
    IF i > Len(name) THEN h ELSE hash_of(name, i + 1, hash_step(h, name[i]))

\* get_color_code(field_name): the palette index, -1 for the empty string ''
get_color_code(name) ==
    IF name = << >> THEN -1 ELSE color_index(hash_of(name, 1, 0))

\* the character codes of the names the records below use
Chars(name) ==
    CASE name = "info" -> <<105, 110, 102, 111>>
      [] name = "0" -> <<48>>
      [] name = "msg" -> <<109, 115, 103>>
      [] OTHER -> << >>

MaxName == 4
CharCodes == {48, 97, 1114111}

PageIdle ==
    /\ lines = << >>
    /\ pgPc = "unused"
    /\ current_line = 0
    /\ lines_displayed = 0
    /\ summary = NoSummary
    /\ out = << >>
    /\ tty = "cooked"
    /\ old_settings = "unset"
    /\ rd = "idle"
    /\ keylog = << >>
    /\ skipped = {}

InitColor ==
    /\ PageIdle
    /\ FollowIdle
    /\ err = "none"
    /\ json_obj = << >>
    /\ printed = << >>
    /\ fmtPc = "unused"
    /\ start_str = Unset
    /\ field_name \in SeqsUpTo(CharCodes, MaxName)
    /\ hash_val = 0
    /\ char_idx = 0
    /\ color = -2

\* lines 29-30: `if not field_name: return ''`
ColorEmpty ==
    /\ color = -2
    /\ field_name = << >>
    /\ color' = -1
    /\ UNCHANGED <<field_name, hash_val, char_idx>>
    /\ UNCHANGED <<pageVars, err, followVars, fmtVars>>

\* lines 34-35: one pass of the loop over the characters
HashChar ==
    /\ color = -2
    /\ char_idx < Len(field_name)
    /\ hash_val' = hash_step(hash_val, field_name[char_idx + 1])
    /\ char_idx' = char_idx + 1
    /\ UNCHANGED <<field_name, color>>
    /\ UNCHANGED <<pageVars, err, followVars, fmtVars>>

\* line 53: return colors[hash_val % len(colors)]
ColorReturn ==
    /\ color = -2
    /\ field_name # << >>
    /\ char_idx = Len(field_name)
    /\ color' = color_index(hash_val)
    /\ UNCHANGED <<field_name, hash_val, char_idx>>
    /\ UNCHANGED <<pageVars, err, followVars, fmtVars>>

NextColor ==
    \/ ColorEmpty
    \/ HashChar
    \/ ColorReturn

SpecColor == InitColor /\ [][NextColor]_vars

\* ------------------------------------------------------- format_log_entry
\* the instants the sample timestamps are built from
SampleYears == {2023, 2024, MAXYEAR}
SampleDays == {<<1, 1>>, <<2, 28>>, <<2, 29>>, <<12, 31>>}
SampleHours == {0, 15, 16, 20, 23}
SampleMinSec == {<<0, 0>>, <<59, 59>>}

SampleTimes ==
    {t \in {[y |-> yy, mo |-> md[1], d |-> md[2], h |-> hh, mi |-> ms[1], s |-> ms[2]] :
                yy \in SampleYears, md \in SampleDays,
                hh \in SampleHours, ms \in SampleMinSec} :
        t.d <= DaysIn(t.y, t.mo)}

TimestampValues ==
    {Absent, None, Str(""), Str("not-a-date"), Num("0"), Num("123")}
        \cup {Iso(t) : t \in SampleTimes}
TimeValues == {Absent, Iso([y |-> 2024, mo |-> 1, d |-> 1, h |-> 0, mi |-> 0, s |-> 0])}
TypeValues == {Absent, None, Str(""), Str("info"), Num("5")}
ZeroValues ==
    {Absent, Str("hi"), Str(""), Num("5"), Bool("True"), None, Map("{'a': 1}"),
     List("[1, 2]")}

\* the keys of a record, in the order json.loads keeps them
RecordKeys == <<"timestamp", "time", "type", "0">>

Records ==
    {[k \in {"timestamp", "time", "type", "0"} |->
        CASE k = "timestamp" -> ts [] k = "time" -> tm [] k = "type" -> ty [] OTHER -> z] :
        ts \in TimestampValues, tm \in TimeValues, ty \in TypeValues, z \in ZeroValues}

\* json_obj.get(key, default)
Get(obj, key, default) == IF obj[key] # Absent THEN obj[key] ELSE default

\* a printed line: what it is, its label, its colour and the values shown
PLine(t, label, c, a, b) == [t |-> t, label |-> label, color |-> c, a |-> a, b |-> b]

InitFormat ==
    /\ PageIdle
    /\ FollowIdle
    /\ err = "none"
    /\ json_obj \in Records
    /\ printed = << >>
    /\ fmtPc = "print_blank"
    /\ start_str = Unset
    /\ field_name = << >>
    /\ hash_val = 0
    /\ char_idx = 0
    /\ color = -1

\* line 93: print()
PrintBlank ==
    /\ fmtPc = "print_blank"
    /\ printed' = Append(printed, PLine("blank", "", -1, Absent, Absent))
    /\ fmtPc' = "header"
    /\ UNCHANGED <<json_obj, start_str, err>>
    /\ UNCHANGED <<pageVars, followVars, colorVars>>

\* lines 95-111: the header; get_color_code raises TypeError on a type that
\* cannot be iterated
PrintHeader ==
    /\ fmtPc = "header"
    /\ LET timestamp == Get(json_obj, "timestamp", Get(json_obj, "time", None))
           entry_type == Get(json_obj, "type", None)
           formatted_time == IF Truthy(timestamp) THEN convert_timestamp(timestamp)
                             ELSE Str("")
       IN
       IF Truthy(entry_type) /\ entry_type.kind \in {"num", "bool"}
       THEN /\ fmtPc' = "Error"
            /\ err' = "TypeError"
            /\ UNCHANGED printed
       ELSE /\ fmtPc' = "fields"
            /\ err' = err
            /\ printed' = Append(printed,
                 IF Truthy(formatted_time) /\ Truthy(entry_type)
                 THEN PLine("header", "time_type", get_color_code(Chars(entry_type.text)),
                            formatted_time, entry_type)
                 ELSE IF Truthy(formatted_time)
                 THEN PLine("header", "time_unknown", 33, formatted_time, Absent)
                 ELSE IF Truthy(entry_type)
                 THEN PLine("header", "notime_type", get_color_code(Chars(entry_type.text)),
                            Absent, entry_type)
                 ELSE PLine("header", "none", 33, Absent, Absent))
    /\ UNCHANGED <<json_obj, start_str>>
    /\ UNCHANGED <<pageVars, followVars, colorVars>>

\* lines 118-150: the line printed for one field; a mapping or a sequence
\* prints the key alone and its content on the lines below
field_line(key, value) ==
    PLine(IF value.kind \in {"map", "list"} THEN "field_open" ELSE "field",
          IF value.kind = "str" /\ key = "0" THEN "message" ELSE key,
          get_color_code(Chars(key)), value, Absent)

RECURSIVE print_fields(_, _)
\* lines 114-150: the loop over json_obj.items() from the i-th key on
print_fields(obj, i) ==
    IF i > Len(RecordKeys) THEN << >>
    ELSE LET key == RecordKeys[i] IN
         IF key \in {"timestamp", "type", "time"} \/ obj[key] = Absent
         THEN print_fields(obj, i + 1)
         ELSE <<field_line(key, obj[key])>> \o print_fields(obj, i + 1)

PrintFields ==
    /\ fmtPc = "fields"
    /\ printed' = printed \o print_fields(json_obj, 1)
    /\ fmtPc' = "returned"
    /\ UNCHANGED <<json_obj, start_str, err>>
    /\ UNCHANGED <<pageVars, followVars, colorVars>>

\* get_log_summary, lines 239-268, on the file made of this one record: the
\* start_time it reports, or the exception that leaves it
summary_start_str(obj) ==
    LET first == Get(obj, "timestamp", None)
        timestamp == IF Truthy(first) THEN first ELSE Get(obj, "time", None)
    IN
    IF ~Truthy(timestamp) THEN Str("N/A")
    ELSE IF timestamp.kind = "str" THEN Str("N/A")
    ELSE IF timestamp.kind # "iso" THEN Raised("AttributeError")
    ELSE IF plus_hours(timestamp.at).overflow THEN Raised("OverflowError")
    ELSE Ymdhms(plus_hours(timestamp.at).at)

SummaryOfRecord ==
    /\ fmtPc # "unused"
    /\ start_str = Unset
    /\ start_str' = summary_start_str(json_obj)
    /\ UNCHANGED <<json_obj, printed, fmtPc, err>>
    /\ UNCHANGED <<pageVars, followVars, colorVars>>

NextFormat ==
    \/ PrintBlank
    \/ PrintHeader
    \/ PrintFields
    \/ SummaryOfRecord

SpecFormat == InitFormat /\ [][NextFormat]_vars

\* ----------------------------------------------------------------- startup
\* main up to the point where rendering starts, in both modes: the follow
\* steps above up to the open that enters the loop, and lines 543-560 of the
\* mode without -f, against the same file system
StartupModes == {"file", "dir", "page_file", "page_dir"}

InitStartup ==
    /\ PageIdle
    /\ PureIdle
    /\ err = "none"
    /\ dir \in InitialDirs
    /\ \E h \in 0..MaxHist :
          content = [i \in 1..Cardinality({p \in Paths : dir[p] # 0}) |-> Fill(h, FullLine)]
    /\ recent = [i \in 1..Len(content) |-> i]
    /\ envOps = 0
    /\ mode \in StartupModes
    /\ flPc = IF mode \in {"file", "dir"} THEN "main" ELSE "main_page"
    /\ phase = "startup"
    /\ file_path = IF mode \in {"file", "page_file"} THEN "a" ELSE NoPath
    /\ f = NoHandle
    /\ current_inode = 0
    /\ new_inode = 0
    /\ files = {}
    /\ latest_file = NoPath
    /\ emitted = << >>
    /\ opened = 0
    /\ attached = {}
    /\ histLen = << >>
    /\ watched = {}

\* an exception nothing catches ends the process with a traceback, status 1
Traceback(e) ==
    /\ flPc' = "Crashed"
    /\ err' = e

\* main, lines 545-552: a directory argument goes through find_latest_file
MainPage ==
    /\ flPc = "main_page"
    /\ flPc' = IF mode = "page_dir" THEN "latest_rglob" ELSE "exists"
    /\ UNCHANGED <<fsVars, mode, phase, file_path, f, current_inode, new_inode, files,
                   latest_file, emitted, opened, attached, histLen, watched, err>>
    /\ UNCHANGED <<pageVars, pureVars>>

\* find_latest_file, lines 163-166: list the files; none raises
\* FileNotFoundError, which main does not catch
LatestList ==
    /\ flPc = "latest_rglob"
    /\ files' = {p \in Paths : Exists(p)}
    /\ IF files' = {}
       THEN Traceback("FileNotFoundError")
       ELSE flPc' = "latest_max" /\ err' = err
    /\ UNCHANGED <<fsVars, mode, phase, file_path, f, current_inode, new_inode,
                   latest_file, emitted, opened, attached, histLen, watched>>
    /\ UNCHANGED <<pageVars, pureVars>>

\* find_latest_file, lines 169-172: the newest listed file; stat of a file
\* that is gone raises FileNotFoundError
LatestMax ==
    /\ flPc = "latest_max"
    /\ IF \E p \in files : ~Exists(p)
       THEN /\ Traceback("FileNotFoundError")
            /\ UNCHANGED <<latest_file, file_path>>
       ELSE /\ latest_file' = NewestOf(files)
            /\ file_path' = latest_file'
            /\ flPc' = "exists"
            /\ err' = err
    /\ UNCHANGED <<fsVars, mode, phase, f, current_inode, new_inode, files,
                   emitted, opened, attached, histLen, watched>>
    /\ UNCHANGED <<pageVars, pureVars>>

\* main, lines 554-556: os.path.exists, else the error message and exit(1)
ExistsCheck ==
    /\ flPc = "exists"
    /\ IF Exists(file_path)
       THEN flPc' = "open" /\ err' = err
       ELSE Exit1
    /\ UNCHANGED <<fsVars, mode, phase, file_path, f, current_inode, new_inode, files,
                   latest_file, emitted, opened, attached, histLen, watched>>
    /\ UNCHANGED <<pageVars, pureVars>>

\* main, lines 559-562: open and read the file, then paginate_output; an
\* error of open is not caught
OpenRead ==
    /\ flPc = "open"
    /\ IF Exists(file_path)
       THEN /\ lines' = content[dir[file_path]]
            /\ pgPc' = "get_log_summary"
            /\ flPc' = "Paginating"
            /\ err' = err
       ELSE /\ Traceback("FileNotFoundError")
            /\ UNCHANGED <<lines, pgPc>>
    /\ UNCHANGED <<fsVars, mode, phase, file_path, f, current_inode, new_inode, files,
                   latest_file, emitted, opened, attached, histLen, watched>>
    /\ UNCHANGED <<current_line, lines_displayed, summary, out, tty, old_settings, rd,
                   keylog, skipped, pureVars>>

NextStartup ==
    \/ \E p \in Paths, k \in FollowKinds : AppendLine(p, k)
    \/ \E p \in Paths : CreateFile(p)
    \/ \E p \in Paths : DeleteFile(p)
    \/ \E p \in Paths : ReplaceFile(p)
    \/ MainFollow
    \/ TailFollowStart
    \/ DiscList
    \/ DiscMax
    \/ DiscIno
    \/ InitStat
    \/ InitOpen
    \/ MainPage
    \/ LatestList
    \/ LatestMax
    \/ ExistsCheck
    \/ OpenRead

SpecStartup == InitStartup /\ [][NextStartup]_vars

\* =================================================================== claims
\* what the output shows of the lines: the indexes rendered, in print order
IsShown(e) == e.t \in {"entry", "raw"}
Shown == SelectSeq(out, IsShown)
ShownIdx == [k \in 1..Len(Shown) |-> Shown[k].i]
Rendered == {out[k].i : k \in {j \in 1..Len(out) : IsShown(out[j])}}
Printed(t) == \E k \in 1..Len(out) : out[k].t = t
FirstN(n) == [k \in 1..n |-> k - 1]
Min(S) == CHOOSE x \in S : \A y \in S : x <= y
RecordErrors == {"AttributeError", "TypeError"}

\* a line that parses as JSON and contains timestamp, time or type
Recognized(l) == l.json # "raw" /\ (l.ts # "absent" \/ l.typ # "absent")
JumpTargets(c) == {i \in c..(Len(lines) - 1) : Recognized(lines[i + 1])}
Pages(n) == IF n % 20 = 0 THEN n \div 20 ELSE n \div 20 + 1

\* the user started paging and has pressed nothing but space since
OnlySpace ==
    /\ Len(keylog) >= 1
    /\ keylog[1] \in {"c", "other"}
    /\ \A k \in 2..Len(keylog) : keylog[k] = "space"

\* C3: an error on one record never aborts the processing of later records:
\* no run of the pagination ends with an exception raised by a record, and a
\* line shown as raw text is exactly a line that is not JSON.
C3_RecordErrorNeverAborts ==
    /\ err \notin RecordErrors
    /\ \A k \in 1..Len(Shown) :
          (Shown[k].t = "raw") <=> (lines[Shown[k].i + 1].json = "raw")

\* C4 as stated: at every point every line index below the cursor has been
\* rendered.
C4_AllBelowCursorRendered ==
    0..(current_line - 1) \subseteq Rendered

\* C4 amended: every line index below the cursor has been rendered or was
\* passed over by an Enter jump, and a line passed over is never one that
\* parses as JSON with timestamp, time or type.
C4_BelowCursorRenderedOrJumped ==
    (0..(current_line - 1)) \ Rendered
        \subseteq {i \in skipped : ~Recognized(lines[i + 1])}

\* an Enter jump has passed over lines and paging went on to the end
C4_Witness ==
    /\ skipped # {}
    /\ pgPc = "Done"
    /\ Printed("eof")
    /\ current_line = Len(lines)

\* C6: the summary reports ceil(N/20) pages, and a user who starts paging and
\* presses only space sees the N lines once each, in file order, 20 per
\* batch, and reaches end-of-file after ceil(N/20)-1 presses of space.
C6_SpacePaging ==
    /\ pgPc \notin {"get_log_summary", "Interrupted"} =>
          summary.err = "none" /\ summary.total_pages = Pages(Len(lines))
    /\ OnlySpace /\ pgPc = "AwaitingPageInput" =>
          ShownIdx = FirstN(lines_per_page * Len(keylog))
    /\ OnlySpace /\ pgPc \in {"Done", "Error"} /\ err # "OSError" =>
          /\ ShownIdx = FirstN(Len(lines))
          /\ Printed("eof")
          /\ Len(keylog) - 1 = Pages(Len(lines)) - 1

\* C7: Enter at the prompt with the cursor at c renders the first line at or
\* after c that parses as JSON with timestamp, time or type, and moves the
\* cursor just past it; with no such line left it prints end-of-file and
\* stops.
C7_EnterJump ==
    [][(pgPc = "AwaitingPageInput" /\ rd = "reading"
        /\ keylog' = Append(keylog, "enter")) =>
          LET T == JumpTargets(current_line) IN
          IF T # {}
          THEN /\ current_line' = Min(T) + 1
               /\ Len(out') > Len(out)
               /\ out'[Len(out) + 1] = Ev("entry", Min(T))
          ELSE /\ pgPc' = "Done"
               /\ Printed("eof")'
               /\ current_line' = current_line]_vars

\* C8: once the cursor has reached the end of a non-empty file the loop is
\* Done and the end-of-file notice has been printed, however it got there.
C8_EndPrintsNotice ==
    (Len(lines) > 0 /\ current_line = Len(lines)) =>
        (pgPc = "Done" /\ Printed("eof"))

\* C9: at the first prompt q or Q ends the run with no line rendered; any
\* other key shows the first page, with an acknowledgement exactly when the
\* key was not c or C.
C9_StartKey ==
    /\ (Len(keylog) = 1 /\ keylog[1] = "q") =>
          (pgPc = "Done" /\ Rendered = {})
    /\ (Len(keylog) = 1 /\ keylog[1] # "q") =>
          /\ Printed("ack") <=> (keylog[1] = "other")
          /\ pgPc = "ShowingPage" => ShownIdx = FirstN(current_line)
          /\ (pgPc \in {"AwaitingPageInput", "Done", "Error"} /\ err # "OSError") =>
                ShownIdx = FirstN(IF Len(lines) < lines_per_page
                                  THEN Len(lines) ELSE lines_per_page)

\* C10: the terminal is raw only inside a keypress read; outside one, and in
\* particular while rendering and after the run has ended, it is in the mode
\* it had before the read.
C10_TerminalRestored ==
    /\ tty = "raw" => (rd = "reading" /\ pgPc \in {"AwaitingStart", "AwaitingPageInput"})
    /\ (rd = "idle" /\ old_settings # "unset") => tty = old_settings
    /\ old_settings # "raw"

\* a read was interrupted before any key arrived, and the mode is back
C10_Witness ==
    /\ pgPc = "Interrupted"
    /\ old_settings = "cbreak"
    /\ keylog = << >>
    /\ tty = "cbreak"

\* ------------------------------------------------------------ follow claims
EmittedSet == {emitted[k] : k \in 1..Len(emitted)}
HistOf(ino) == IF ino \in DOMAIN histLen THEN histLen[ino] ELSE 0

\* C1: no line appended at the tracked path around a rotation is dropped:
\* whenever the tracker has moved from one file to another and holds an open
\* handle at the top of its loop, every line appended at the tracked path
\* since following started has been emitted, or still lies ahead of the
\* handle's read offset, or is in a file the tracker has not opened yet.
C1_NoLineDropped ==
    (flPc \in {"readline", "stat"} /\ ~f.closed /\ Cardinality(attached) >= 2) =>
        \A l \in watched :
            \/ l \in EmittedSet
            \/ l[1] = f.ino /\ l[2] > f.pos
            \/ l[1] \notin attached

\* C2: once the loop is running, the tracked file becoming inaccessible never
\* ends the process: the loop is never left with an error raised by a file
\* operation.
C2_InaccessibleNeverFatal ==
    phase = "loop" => ~(flPc = "Crashed" /\ err \in {"ValueError", "FileNotFoundError"})

\* C5: no line that was in a file when following started is ever emitted, and
\* no line is emitted twice.
C5_NoHistoryReplayed ==
    /\ \A k \in 1..Len(emitted) : emitted[k][2] > HistOf(emitted[k][1])
    /\ \A j, k \in 1..Len(emitted) : emitted[j] = emitted[k] => j = k

\* a file that had lines when following started has had a later line emitted
C5_Witness ==
    \E k \in 1..Len(emitted) :
        HistOf(emitted[k][1]) >= 1 /\ emitted[k][2] = HistOf(emitted[k][1]) + 1

\* C11: the tracker holds at most one open handle: the old handle is closed
\* before a replacement is opened (on identity change and on a switch after
\* deletion), and once the loop has been left, by interrupt or by an error,
\* the handle is closed.
C11_OneHandle ==
    /\ opened \in 0..1
    /\ opened = OpenCount(f)
    /\ (phase = "loop" /\ flPc \in {"reopen", "sw_open", "rglob", "max_mtime", "stat_ino"})
          => f.closed
    /\ flPc \in {"Crashed", "Stopped", "Exit1"} => f.closed

\* the tracker moved to a second file and was then interrupted
C11_Witness ==
    /\ flPc = "Stopped"
    /\ phase = "loop"
    /\ Cardinality(attached) >= 2
    /\ f.ino # 0
    /\ f.closed

\* ------------------------------------------------------- formatting claims
HasTime(obj) == obj["timestamp"] # Absent \/ obj["time"] # Absent
HasType(obj) == obj["type"] # Absent
HeaderDone == fmtPc \in {"fields", "returned", "Error"}

\* C12: the header is decided by which of timestamp (or its alias time) and
\* type are present in the record: both, time only, type only, neither; and
\* exactly one blank line comes before it.
C12_HeaderByPresence ==
    HeaderDone =>
        /\ Len(printed) >= 2
        /\ printed[1].t = "blank"
        /\ printed[2].t = "header"
        /\ printed[2].label =
              IF HasTime(json_obj) /\ HasType(json_obj) THEN "time_type"
              ELSE IF HasTime(json_obj) THEN "time_unknown"
              ELSE IF HasType(json_obj) THEN "notime_type"
              ELSE "none"

\* C13: a field named "0" is shown under the label message whatever value it
\* holds (string, number, boolean, null, mapping, sequence), never under "0".
C13_ZeroRelabelled ==
    (fmtPc = "returned" /\ json_obj["0"] # Absent) =>
        /\ \E k \in 1..Len(printed) :
              /\ printed[k].t \in {"field", "field_open"}
              /\ printed[k].label = "message"
              /\ printed[k].a = json_obj["0"]
        /\ \A k \in 1..Len(printed) : printed[k].label # "0"

\* ----------------------------------------------------------- colour claims
\* C14: the colour is a function of the field name alone: after every
\* character the rolling hash is within 0..2^31-1, the palette index returned
\* is the hash modulo 13 and lies in 0..12, the value returned is the one the
\* name determines, and the empty name gets no colour.
C14_ColorHash ==
    /\ hash_val \in 0..MaxInt31
    /\ color # -2 =>
          /\ (field_name = << >>) <=> (color = -1)
          /\ field_name # << >> => (color \in 0..12 /\ color = hash_val % 13)
          /\ color = get_color_code(field_name)

\* a name long enough for the unmasked sum to pass 2^31 has been coloured
C14_Witness ==
    /\ field_name = <<1114111, 1114111, 1114111, 1114111>>
    /\ hash_val = 2084538304
    /\ color = 4

\* ------------------------------------------------------- timestamp claims
\* the number of the day y-mo-d, counted from 0001-01-01
DaysBeforeYear(y) == 365 * (y - 1) + (y - 1) \div 4 - (y - 1) \div 100 + (y - 1) \div 400
RECURSIVE DaysBeforeMonth(_, _)
DaysBeforeMonth(y, mo) == IF mo = 1 THEN 0 ELSE DaysBeforeMonth(y, mo - 1) + DaysIn(y, mo - 1)
DayNumber(t) == DaysBeforeYear(t.y) + DaysBeforeMonth(t.y, t.mo) + t.d

\* C15: timestamps are shifted by a flat +8 hours: a parseable UTC time with
\* hour h shows in the header as ((h+8) mod 24):MM:SS, the summary shows the
\* same clock time with the date moved to the next day exactly when h >= 16,
\* and a string that does not parse is the header text as it came.
C15_FlatShift ==
    LET v == json_obj["timestamp"] IN
    /\ (v.kind = "iso" /\ fmtPc \in {"fields", "returned"}) =>
          printed[2].a = Hms([v.at EXCEPT !.h = (v.at.h + 8) % 24])
    /\ (v.kind = "iso" /\ start_str # Unset) =>
          /\ start_str.kind = "ymdhms"
          /\ Hms(start_str.at) = Hms([v.at EXCEPT !.h = (v.at.h + 8) % 24])
          /\ DayNumber(start_str.at) =
                DayNumber(v.at) + (IF v.at.h >= 16 THEN 1 ELSE 0)
    /\ (v = Str("not-a-date") /\ HeaderDone) =>
          /\ err # "ValueError"
          /\ fmtPc # "Error" => printed[2].a = v

\* ----------------------------------------------------------- startup claims
NoFile == \A p \in Paths : ~Exists(p)

\* the target is missing at the step that is about to look for it
AbsentAtCheck ==
    \/ flPc = "main" /\ mode = "dir" /\ NoFile
    \/ flPc = "tail_follow" /\ mode = "file" /\ ~Exists(file_path)
    \/ flPc \in {"rglob", "latest_rglob"} /\ NoFile
    \/ flPc \in {"max_mtime", "latest_max"} /\ \E p \in files : ~Exists(p)
    \/ flPc = "stat_ino" /\ ~Exists(latest_file)
    \/ flPc \in {"init_stat", "init_open", "exists", "open"} /\ ~Exists(file_path)

\* the run has ended with a non-zero status
Fatal == flPc \in {"Exit1", "Crashed"}

\* C16: in both modes a target that is missing when startup looks for it (the
\* named file, a file in the given or discovered directory, the file to open)
\* ends the run with a non-zero status, and a run ended that way has rendered
\* no line, read no file and not entered the follow loop.
C16_StartupAbsenceFatal ==
    [][/\ (AbsentAtCheck /\ flPc' # flPc) =>
             (Fatal' /\ err' \in {"SystemExit", "FileNotFoundError"})
       /\ Fatal' =>
             /\ phase' = "startup"
             /\ emitted' = << >>
             /\ opened' = 0
             /\ lines' = << >>
             /\ pgPc' = "unused"]_vars

\* the directory was emptied while the tracker was starting, and the run ended
C16_Witness ==
    /\ mode = "dir"
    /\ NoFile
    /\ envOps > 0
    /\ flPc = "Exit1"
    /\ err = "SystemExit"

\* --------------------------------------------------------- Enter-jump claim
LastKeyEnter == Len(keylog) > 0 /\ keylog[Len(keylog)] = "enter"

\* C17: an Enter jump that finds a target renders that one entry and the loop
\* then awaits a keypress (or is done, when the target was the last line): no
\* other line is rendered until the next key has been read.
C17_JumpRendersOneEntry ==
    [][/\ (keylog' = Append(keylog, "enter") /\ current_line' # current_line) =>
             /\ Rendered' = Rendered \cup {current_line' - 1}
             /\ pgPc' \in {"AwaitingPageInput", "Done"}
       /\ (LastKeyEnter /\ keylog' = keylog) => Rendered' = Rendered]_vars

\* ------------------------------------------------------ follow, liveness
NewestPath == NewestOf({p \in Paths : Exists(p)})
Ended == flPc \in {"Exit1", "Crashed", "Stopped"}

\* the handle reads the newest file of the directory
OnNewest == ~NoFile /\ ~f.closed /\ file_path = NewestPath /\ f.ino = dir[NewestPath]

\* a file created since following started, other than the tracked one, is the
\* newest in the directory
NewerFileThere ==
    /\ phase = "loop"
    /\ ~NoFile
    /\ NewestPath # file_path
    /\ dir[NewestPath] > Len(histLen)

\* C18: when a newer file appears in the monitored directory while following,
\* the tracker eventually re-attaches to the newest file, also when the file
\* it tracks is still there with the same identity token (unless the run has
\* ended first).
C18_SwitchesToNewest == NewerFileThere ~> (OnNewest \/ Ended)

\* the tracked file was gone, discovery found no file, and the tracker is back
\* at the top of its loop
FoundNothing == phase = "loop" /\ flPc = "readline" /\ f.closed /\ new_inode = 0

\* C19: after discovery has found nothing the tracker retries discovery on a
\* later iteration, and once a file is there it eventually holds an open
\* handle on it (unless the user stops the run first).
C19_RetriesDiscovery ==
    /\ FoundNothing ~> (flPc \in {"rglob", "Stopped"})
    /\ (FoundNothing /\ ~NoFile) ~> (~f.closed \/ flPc = "Stopped")

\* the tracker, not the environment or the user, takes the step
TrackerMoves == flPc' # flPc /\ flPc' # "Stopped"

\* C20: on a poll that found no data, a tracked file that is still there with
\* the stored identity token leaves path, handle, read offset and stored token
\* as they were; a changed token closes the old handle, and the re-open of the
\* same path puts the new handle at the current end of the file there and
\* stores the token the check saw, the path staying the same.
C20_PollFrame ==
    [][/\ (flPc = "stat" /\ TrackerMoves /\ Exists(file_path)
             /\ dir[file_path] = current_inode) =>
             /\ ~f.closed
             /\ f' = f
             /\ file_path' = file_path
             /\ current_inode' = current_inode
       /\ (flPc = "stat" /\ TrackerMoves /\ Exists(file_path)
             /\ dir[file_path] # current_inode) =>
             /\ f'.closed
             /\ opened' = 0
             /\ flPc' = "reopen"
             /\ new_inode' = dir[file_path]
             /\ file_path' = file_path
       /\ (flPc = "reopen" /\ TrackerMoves /\ Exists(file_path)) =>
             /\ ~f'.closed
             /\ f'.ino = dir[file_path]
             /\ f'.pos = Len(content[dir[file_path]])
             /\ current_inode' = new_inode
             /\ new_inode # current_inode
             /\ file_path' = file_path]_vars

\* the path given on the command line was re-opened on a replacement file that
\* already held a line, and nothing of it was emitted
C20_Witness ==
    /\ mode = "file"
    /\ file_path = "a"
    /\ flPc = "readline"
    /\ ~f.closed
    /\ f.ino > Len(histLen)
    /\ current_inode = f.ino
    /\ f.pos >= 1
    /\ f.pos = Len(content[f.ino])
    /\ emitted = << >>

\* ------------------------------------------------------ termination claims
\* the keys read at the --More-- prompt, the start key not counted
PageKeyCount == IF keylog = << >> THEN 0 ELSE Len(keylog) - 1

\* the user or the input device, not the loop, ended the run
EndedFromOutside == pgPc' = "Interrupted" \/ (pgPc' = "Error" /\ err' = "OSError")

\* C21: the pagination cursor never decreases and never exceeds the number of
\* lines; a keypress at the --More-- prompt either ends the loop in Done or
\* is followed by a strictly larger cursor (at once for Enter, by the batch
\* rendered next for any other key); at most N keys are read at the prompt on
\* a file of N lines; and the loop is left through Done only, never through
\* an exception raised by a record.
C21_CursorAdvancesToDone ==
    [][/\ current_line <= current_line'
       /\ current_line' <= Len(lines)
       /\ (pgPc = "AwaitingPageInput" /\ keylog' # keylog /\ pgPc' # "Done"
             /\ ~EndedFromOutside) =>
             /\ pgPc' = "ShowingPage"
             /\ current_line' < Len(lines)
             /\ keylog'[Len(keylog')] = "enter" => current_line' > current_line
       /\ (pgPc = "ShowingPage" /\ ~EndedFromOutside) =>
             current_line' > current_line
       /\ PageKeyCount' <= Len(lines)
       /\ (pgPc \in {"ShowingPage", "AwaitingPageInput"}
             /\ pgPc' \in {"Error", "Interrupted"}) => EndedFromOutside]_vars

\* C22: in follow mode, whenever a handle is open the stored identity token
\* is the identity of the file that handle reads, also when the file at the
\* tracked path is replaced between the identity check and the open.
C22_TokenNamesOpenFile == ~f.closed => current_inode = f.ino
====
